---- MODULE Spec2Model ----
\* stagit-highlight.py: the page rewriter (highlight_file) and the directory
\* walker (traverse_repository, main), as state machines.
\*
\* Text is a sequence of tokens.  A token is either one newline (NL) or a piece
\* of markup or code that the program's regular expressions and string
\* operations treat as a unit.  A file is the token stream of its content; the
\* program reads it line by line, each line keeping its trailing newline.
EXTENDS Integers, Sequences, FiniteSets, TLC

\* ---------------------------------------------------------------- bounds
MaxAnchors == 4

\* ------------------------------------------------------------- constants
SUCCESS == 0
FAILURE == 1

\* ---------------------------------------------------------------- tokens
NL == "\n"
LINK == "<link rel=\"stylesheet\" type=\"text/css\" href=\""
UP == "../"
STYLE == "style.css"
SYNTAX == "syntax.css"
LINKEND == "\"/>"
DIVCONTENT == "<div id=\"content\">"
DIVCLOSE == "</div>"
RAWHEAD == "<p> f (1B) <a href=\"raw/f\">raw</a></p>"
HR == "<hr/>"
PRE == "<pre id=blob\">"
HLDIV == "<div class=\"highlight\">"
HLPRE == "<pre>"
HLSPAN == "<span></span>"
HLEND == "</pre></div>"
BODYCLOSE == "</body>"

\* <a href="#lN" class="line" id="lN"> N</a> followed by one space, for N = k
AnchorNames == <<"<a l1> ", "<a l2> ", "<a l3> ", "<a l4> ", "<a l5> ", "<a l6> ",
                 "<a l7> ", "<a l8> ">>
AnchorPrefix(k) == AnchorNames[k]
AnchorPrefixes == {AnchorNames[k] : k \in 1..Len(AnchorNames)}

\* ------------------------------------------------------- string helpers
RECURSIVE Flatten(_)
Flatten(ss) == IF ss = <<>> THEN <<>> ELSE Head(ss) \o Flatten(Tail(ss))

CountTok(s, t) == Cardinality({i \in 1..Len(s) : s[i] = t})

FirstNl(s) ==
    IF \E i \in 1..Len(s) : s[i] = NL
    THEN CHOOSE i \in 1..Len(s) : s[i] = NL /\ \A k \in 1..(i - 1) : s[k] # NL
    ELSE 0

\* The lines of a stream as file iteration yields them: each line ends with its
\* newline, except possibly the last.
RECURSIVE ReadLines(_)
ReadLines(s) ==
    IF s = <<>> THEN <<>>
    ELSE LET n == FirstNl(s)
         IN  IF n = 0 THEN <<s>>
             ELSE <<SubSeq(s, 1, n)>> \o ReadLines(SubSeq(s, n + 1, Len(s)))

\* str.split("\n"): the pieces between newlines, always at least one piece.
RECURSIVE SplitNl(_)
SplitNl(s) ==
    LET n == FirstNl(s)
    IN  IF n = 0 THEN <<s>>
        ELSE <<SubSeq(s, 1, n - 1)>> \o SplitNl(SubSeq(s, n + 1, Len(s)))

\* str.replace(old, new) for a one-token old: every occurrence is replaced.
RECURSIVE Replace(_, _, _)
Replace(s, old, new) ==
    IF s = <<>> THEN <<>>
    ELSE (IF Head(s) = old THEN new ELSE <<Head(s)>>) \o Replace(Tail(s), old, new)

\* str.removeprefix(p)
RemovePrefix(s, p) ==
    IF Len(s) >= Len(p) /\ SubSeq(s, 1, Len(p)) = p
    THEN SubSeq(s, Len(p) + 1, Len(s))
    ELSE s

\* A line without its trailing newline (what "$" and ".*" see).
Chomp(line) ==
    IF line # <<>> /\ line[Len(line)] = NL THEN SubSeq(line, 1, Len(line) - 1) ELSE line

\* html.unescape over the code alphabet: "&" "amp;" is the entity &amp; and
\* "&" "lt;" is the entity &lt;; any other token stands for itself.
RECURSIVE Unescape(_)
Unescape(s) ==
    IF s = <<>> THEN <<>>
    ELSE IF Len(s) >= 2 /\ s[1] = "&" /\ s[2] = "amp;"
         THEN <<"&">> \o Unescape(SubSeq(s, 3, Len(s)))
    ELSE IF Len(s) >= 2 /\ s[1] = "&" /\ s[2] = "lt;"
         THEN <<"<">> \o Unescape(SubSeq(s, 3, Len(s)))
    ELSE <<Head(s)>> \o Unescape(Tail(s))

\* The HTML escaping the formatter applies to the text of a token.
RECURSIVE Escape(_)
Escape(s) ==
    IF s = <<>> THEN <<>>
    ELSE (IF Head(s) = "&" THEN <<"&", "amp;">>
          ELSE IF Head(s) = "<" THEN <<"&", "lt;">>
          ELSE <<Head(s)>>) \o Escape(Tail(s))

\* ------------------------------------------------------ regular expressions
\* re.match(r'<a href="#l[0-9]+" class="line" id="l[0-9]+"> *[0-9]+</a> (.*)', line)
\* and the pass-2 pattern, which is the same prefix as one group.
AnchorMatch(line) == line # <<>> /\ line[1] \in AnchorPrefixes

\* m.group(1) of the pass-1 pattern: the rest of the line, newline excluded.
AnchorRest(line) == Tail(Chomp(line))

RECURSIVE AllUp(_)
AllUp(s) == s = <<>> \/ (Head(s) = UP /\ AllUp(Tail(s)))

\* re.match(r'<link rel="stylesheet" type="text/css" href="(../)*style.css"/>$', line)
StyleLinkMatch(line) ==
    LET l == Chomp(line)
    IN  /\ Len(l) >= 3
        /\ l[1] = LINK
        /\ l[Len(l) - 1] = STYLE
        /\ l[Len(l)] = LINKEND
        /\ AllUp(SubSeq(l, 2, Len(l) - 2))

RawLinkMatch_Loose(line) ==
    LET l == Chomp(line)
    IN  Len(l) >= 3 /\ l[1] = RAWHEAD /\ l[2] = HR /\ l[Len(l)] = PRE

\* re.match(r'<p> .* <a href="(../)*raw/.*">raw</a></p><hr/><pre id=blob">$', line)
RawLinkMatch(line) == Chomp(line) = <<RAWHEAD, HR, PRE>>

\* ----------------------------------------------------------- pass 1, a line
\* One iteration of the first fileinput loop.  st = [code, in_content, out]:
\* the code buffer, the flag, and what has been printed to the file so far.
Pass1Line(st, line) ==
    LET code1 == IF AnchorMatch(line)
                 THEN st.code \o AnchorRest(line) \o <<NL>>
                 ELSE st.code
    IN  IF StyleLinkMatch(line)
        THEN [code |-> code1, in_content |-> st.in_content,
              out |-> st.out \o line \o Replace(line, STYLE, <<SYNTAX>>)]
        ELSE IF line = <<DIVCONTENT, NL>>
        THEN [code |-> code1, in_content |-> TRUE, out |-> st.out \o line]
        ELSE IF ~st.in_content
        THEN [code |-> code1, in_content |-> st.in_content, out |-> st.out \o line]
        ELSE IF line = <<DIVCLOSE, NL>>
        THEN [code |-> code1, in_content |-> st.in_content,
              out |-> st.out \o line \o <<DIVCLOSE>>]
        ELSE IF RawLinkMatch(line)
        THEN [code |-> code1, in_content |-> st.in_content,
              out |-> st.out \o Replace(line, HR, <<HR, HLDIV>>)]
        ELSE [code |-> code1, in_content |-> st.in_content, out |-> st.out \o line]

Pass1Init == [code |-> <<>>, in_content |-> FALSE, out |-> <<>>]

RECURSIVE Pass1(_, _)
Pass1(st, ls) == IF ls = <<>> THEN st ELSE Pass1(Pass1Line(st, Head(ls)), Tail(ls))

\* ------------------------------------------------------------ highlighter
\* pygments lexers strip leading and trailing newlines from their input
\* (option stripnl, on by default) ...
RECURSIVE StripLeadNl(_)
StripLeadNl(s) == IF s # <<>> /\ Head(s) = NL THEN StripLeadNl(Tail(s)) ELSE s

RECURSIVE StripTrailNl(_)
StripTrailNl(s) ==
    IF s # <<>> /\ s[Len(s)] = NL THEN StripTrailNl(SubSeq(s, 1, Len(s) - 1)) ELSE s

\* ... and then make the text end with one newline (option ensurenl).
LexerInput(text) == StripTrailNl(StripLeadNl(text)) \o <<NL>>

\* One line of formatter output: the escaped text inside a span; a blank
\* line has no token and yields no markup.
HlLine(l) ==
    IF l = <<>> THEN <<>> ELSE <<"<span class=\"n\">">> \o Escape(l) \o <<"</span>">>

\* pygments.highlight(text, lexer, HtmlFormatter()): the lines of the lexer
\* input, marked up, inside <div class="highlight"><pre><span></span> ...
\* </pre></div> and a final newline.
Highlight(text) ==
    LET ls == ReadLines(LexerInput(text))
    IN  <<HLDIV, HLPRE, HLSPAN>>
        \o Flatten([i \in 1..Len(ls) |-> HlLine(Chomp(ls[i])) \o <<NL>>])
        \o <<HLEND, NL>>

HighlightInput_Twice(code) == Unescape(Unescape(code))

\* What is handed to the highlighter: html.unescape(code).
HighlightInput(code) == Unescape(code)

\* codelines
CodeLines(code) == SplitNl(RemovePrefix(Highlight(HighlightInput(code)), <<HLDIV, HLPRE>>))

\* ----------------------------------------------------------- pass 2, a line
Pass2Line_Newline(st, line, cl) ==
    IF AnchorMatch(line)
    THEN IF st.j + 1 > Len(cl)
         THEN [j |-> st.j, out |-> st.out, err |-> TRUE]
         ELSE [j |-> st.j + 1, out |-> st.out \o <<line[1]>> \o cl[st.j + 1] \o <<NL>>,
               err |-> FALSE]
    ELSE [j |-> st.j, out |-> st.out \o line \o <<NL>>, err |-> FALSE]

\* One iteration of the second fileinput loop.  st = [j, out, err]; err is set
\* when codelines[j] does not exist (IndexError), and nothing is printed then.
Pass2Line(st, line, cl) ==
    IF AnchorMatch(line)
    THEN IF st.j + 1 > Len(cl)
         THEN [j |-> st.j, out |-> st.out, err |-> TRUE]
         ELSE [j |-> st.j + 1, out |-> st.out \o <<line[1]>> \o cl[st.j + 1] \o <<NL>>,
               err |-> FALSE]
    ELSE [j |-> st.j, out |-> st.out \o line, err |-> FALSE]

Pass2Init == [j |-> 0, out |-> <<>>, err |-> FALSE]

RECURSIVE Pass2(_, _, _)
Pass2(st, ls, cl) ==
    IF ls = <<>> \/ st.err THEN st ELSE Pass2(Pass2Line(st, Head(ls), cl), Tail(ls), cl)

\* ------------------------------------------------------------------ names
\* A file name is its stem and whether ".html" follows it: [stem |-> "a.c",
\* html |-> TRUE] is a.c.html.
Name(stem, html) == [stem |-> stem, html |-> html]

\* str.removesuffix(".html") on a name.
RemoveSuffixHtml(n) == Name(n.stem, FALSE)

\* Whether pygments knows a lexer for a file name: it goes by patterns such as
\* *.c, *.css and *.html.
Recognized(n) == n.html \/ n.stem \in {"a.c", "b.c", "style.css"}

LookupResult_NoStrip(pathname) ==
    IF Recognized(pathname) THEN "lexer" ELSE "ClassNotFound"

\* pygments.lexers.get_lexer_for_filename(pathname.removesuffix(".html"))
LookupResult(pathname) ==
    IF Recognized(RemoveSuffixHtml(pathname)) THEN "lexer" ELSE "ClassNotFound"

\* open(pathname, "r", encoding="utf-8") and readlines(), by the state of the
\* file: "ok", "noperm" (open fails: an OSError) or "badutf8" (the bytes are
\* not UTF-8: readlines raises UnicodeDecodeError, a ValueError).
ReadResult(mode) ==
    CASE mode = "ok" -> "data"
      [] mode = "noperm" -> "IOError"
      [] mode = "badutf8" -> "UnicodeDecodeError"

\* Which exceptions "except IOError" catches.
CaughtByExceptIOError(e) == e = "IOError"

\* highlight_file as a whole: the value returned (or the exception that leaves
\* it) and the content of the file afterwards.  An exception inside the second
\* loop leaves in the file what had been printed before it.
highlight_file(pathname, mode, content) ==
    IF LookupResult(pathname) = "ClassNotFound"
    THEN [ret |-> SUCCESS, exc |-> "none", content |-> content]
    ELSE IF ReadResult(mode) # "data"
    THEN IF CaughtByExceptIOError(ReadResult(mode))
         THEN [ret |-> FAILURE, exc |-> "none", content |-> content]
         ELSE [ret |-> FAILURE, exc |-> ReadResult(mode), content |-> content]
    ELSE LET p1 == Pass1(Pass1Init, ReadLines(content))
             p2 == Pass2(Pass2Init, ReadLines(p1.out), CodeLines(p1.code))
         IN  IF p2.err
             THEN [ret |-> FAILURE, exc |-> "IndexError", content |-> p2.out]
             ELSE [ret |-> SUCCESS, exc |-> "none", content |-> p2.out]

\* ------------------------------------------------------------------ pages
Remainders == {<<>>, <<"x">>, <<"&", "amp;", "lt;">>}

RemSeqs == UNION {[1..n -> Remainders] : n \in 0..MaxAnchors}

AnchorLine(k, rem) == <<AnchorPrefix(k)>> \o rem \o <<NL>>

AnchorLines(rems) == Flatten([k \in 1..Len(rems) |-> AnchorLine(k, rems[k])])

StyleLine(ups) == <<LINK>> \o [i \in 1..ups |-> UP] \o <<STYLE, LINKEND, NL>>
SyntaxLine(ups) == <<LINK>> \o [i \in 1..ups |-> UP] \o <<SYNTAX, LINKEND, NL>>
RawLine == <<RAWHEAD, HR, PRE, NL>>
RawLineHl == <<RAWHEAD, HR, HLDIV, PRE, NL>>

Tails == {"eof", "body", "noclose", "div2", "anchor", "raw2", "nonl"}

TailOf(t, n) ==
    CASE t = "eof" -> <<DIVCLOSE, NL>>
      [] t = "body" -> <<DIVCLOSE, NL, BODYCLOSE, NL>>
      [] t = "noclose" -> <<BODYCLOSE, NL>>
      [] t = "div2" -> <<DIVCLOSE, NL, DIVCLOSE, NL>>
      [] t = "anchor" -> <<DIVCLOSE, NL>> \o AnchorLine(n + 1, <<"x">>)
      [] t = "raw2" -> <<DIVCLOSE, NL>> \o RawLine
      [] t = "nonl" -> <<DIVCLOSE>>

\* A page: the generator's markup around the anchors ("full"), or none of it
\* ("bare"); ups is the number of "../" in the stylesheet link.
Pages == [markup : BOOLEAN, ups : 0..1, rems : RemSeqs, tail : Tails]

PageText(p) ==
    (IF p.markup THEN StyleLine(p.ups) \o <<DIVCONTENT, NL>> \o RawLine ELSE <<>>)
    \o AnchorLines(p.rems)
    \o TailOf(p.tail, Len(p.rems))

RewriterNames == {Name("a.c", TRUE), Name("log", TRUE), Name("style.css", FALSE)}
Modes == {"ok", "noperm", "badutf8"}

\* ------------------------------------------------------------------ state
VARIABLES
    pathname,   \* rewriter: the file highlight_file is called on
    mode,       \* rewriter: whether the file can be opened and decoded
    content,    \* rewriter: the content of the file on disk
    page,       \* rewriter: the page the file held at first (history)
    pc,         \* rewriter: position in highlight_file
    opened,     \* rewriter: how many times the file has been opened (history)
    todo,       \* rewriter: the lines the running loop has still to read
    st1,        \* rewriter: code, in_content and the output of the first loop
    hlinput,    \* rewriter: the text handed to pygments.highlight
    codelines,  \* rewriter: codelines
    st2,        \* rewriter: j and the output of the second loop
    ret,        \* rewriter: the value returned
    exc,        \* rewriter: the exception that left highlight_file, or "none"
    run,        \* rewriter: 1 in the first application, 2 in the second
    first,      \* rewriter: outcome of the first application (history)
    argv,       \* walker: the command-line arguments after the program name
    dirs,       \* walker: the directories of the file system, as paths
    fs,         \* walker: the regular files, path |-> [mode, content]
    stack,      \* walker: the active calls of traverse_repository, innermost last
    calls,      \* walker: the calls of highlight_file so far, in order (history)
    entered,    \* walker: the directories traversed so far, in order (history)
    wpc,        \* walker: "start", "walk" or "exited"
    uncaught,   \* walker: the exception that ended the process, or "none"
    exitcode    \* walker: the exit status of the process

rvars == <<pathname, mode, content, page, pc, opened, todo, st1, hlinput, codelines,
           st2, ret, exc, run, first>>

wvars == <<argv, dirs, fs, stack, calls, entered, wpc, uncaught, exitcode>>

vars == <<rvars, wvars>>

WIdle ==
    /\ argv = <<>>
    /\ dirs = {}
    /\ fs = <<>>
    /\ stack = <<>>
    /\ calls = <<>>
    /\ entered = <<>>
    /\ wpc = "idle"
    /\ uncaught = "none"
    /\ exitcode = SUCCESS

NoFirst == [ret |-> SUCCESS, exc |-> "none", content |-> <<>>, in |-> <<>>, mid |-> <<>>,
            j |-> 0, code |-> <<>>]

RInit ==
    /\ pathname \in RewriterNames
    /\ mode \in Modes
    /\ page \in Pages
    /\ content = PageText(page)
    /\ pc = "call"
    /\ opened = 0
    /\ todo = <<>>
    /\ st1 = Pass1Init
    /\ hlinput = <<>>
    /\ codelines = <<>>
    /\ st2 = Pass2Init
    /\ ret = SUCCESS
    /\ exc = "none"
    /\ run = 1
    /\ first = NoFirst
    /\ WIdle

\* lines 28-31: the lexer lookup
Lookup ==
    /\ pc = "call"
    /\ IF LookupResult(pathname) = "ClassNotFound"
       THEN pc' = "return" /\ ret' = SUCCESS
       ELSE pc' = "load" /\ ret' = ret
    /\ UNCHANGED <<pathname, mode, content, page, opened, todo, st1, hlinput, codelines,
                   st2, exc, run, first>>
    /\ UNCHANGED wvars

\* lines 33-38: the first read, and line 42: the first loop opens the file
Load ==
    /\ pc = "load"
    /\ opened' = opened + 1
    /\ IF ReadResult(mode) = "data"
       THEN /\ pc' = "pass1"
            /\ todo' = ReadLines(content)
            /\ st1' = Pass1Init
            /\ content' = <<>>
            /\ UNCHANGED <<ret, exc>>
       ELSE IF CaughtByExceptIOError(ReadResult(mode))
       THEN /\ pc' = "return"
            /\ ret' = FAILURE
            /\ UNCHANGED <<todo, st1, content, exc>>
       ELSE /\ pc' = "raised"
            /\ exc' = ReadResult(mode)
            /\ UNCHANGED <<todo, st1, content, ret>>
    /\ UNCHANGED <<pathname, mode, page, hlinput, codelines, st2, run, first>>
    /\ UNCHANGED wvars

\* lines 42-66: one iteration of the first loop
Pass1Step ==
    /\ pc = "pass1"
    /\ todo # <<>>
    /\ st1' = Pass1Line(st1, Head(todo))
    /\ todo' = Tail(todo)
    /\ content' = st1'.out
    /\ UNCHANGED <<pathname, mode, page, pc, opened, hlinput, codelines, st2, ret, exc,
                   run, first>>
    /\ UNCHANGED wvars

\* lines 68-77: the first loop is over; highlight, and the second loop opens
\* the file
HighlightStep ==
    /\ pc = "pass1"
    /\ todo = <<>>
    /\ hlinput' = HighlightInput(st1.code)
    /\ codelines' = CodeLines(st1.code)
    /\ st2' = Pass2Init
    /\ todo' = ReadLines(content)
    /\ content' = <<>>
    /\ opened' = opened + 1
    /\ pc' = "pass2"
    /\ UNCHANGED <<pathname, mode, page, st1, ret, exc, run, first>>
    /\ UNCHANGED wvars

\* lines 77-82: one iteration of the second loop
Pass2Step ==
    /\ pc = "pass2"
    /\ todo # <<>>
    /\ LET s == Pass2Line(st2, Head(todo), codelines)
       IN  IF s.err
           THEN /\ pc' = "raised"
                /\ exc' = "IndexError"
                /\ UNCHANGED <<st2, todo, content>>
           ELSE /\ st2' = s
                /\ todo' = Tail(todo)
                /\ content' = s.out
                /\ UNCHANGED <<pc, exc>>
    /\ UNCHANGED <<pathname, mode, page, opened, st1, hlinput, codelines, ret, run, first>>
    /\ UNCHANGED wvars

\* line 84
Return ==
    /\ pc = "pass2"
    /\ todo = <<>>
    /\ pc' = "return"
    /\ ret' = SUCCESS
    /\ UNCHANGED <<pathname, mode, content, page, opened, todo, st1, hlinput, codelines,
                   st2, exc, run, first>>
    /\ UNCHANGED wvars

\* highlight_file is applied to the same file once more.
Again ==
    /\ pc \in {"return", "raised"}
    /\ run = 1
    /\ run' = 2
    /\ first' = [ret |-> ret, exc |-> exc, content |-> content, in |-> PageText(page),
                 mid |-> st1.out, j |-> st2.j, code |-> st1.code]
    /\ pc' = "call"
    /\ todo' = <<>>
    /\ st1' = Pass1Init
    /\ st2' = Pass2Init
    /\ hlinput' = <<>>
    /\ codelines' = <<>>
    /\ ret' = SUCCESS
    /\ exc' = "none"
    /\ opened' = 0
    /\ UNCHANGED <<pathname, mode, content, page>>
    /\ UNCHANGED wvars

RNext == Lookup \/ Load \/ Pass1Step \/ HighlightStep \/ Pass2Step \/ Return \/ Again

Spec == RInit /\ [][RNext]_vars

\* ----------------------------------------------------------------- walker
\* A path is the sequence of its components, each a name.
Root == <<Name("repo", FALSE)>>
Last(p) == p[Len(p)]
Front(p) == SubSeq(p, 1, Len(p) - 1)

\* os.path.join(pathname, i)
Join(p, i) == Append(p, i)

IsDir(p) == p \in dirs

\* newpath.removesuffix(".html"), as the path the result names.  The suffix is
\* cut from the path string: cut from "d/X.html" it leaves "d/X", and cut from
\* "d/.html" it leaves "d/", which names the directory d.
StrippedPath(p) ==
    IF ~Last(p).html THEN p
    ELSE IF Last(p).stem = "" THEN Front(p)
    ELSE Join(Front(p), RemoveSuffixHtml(Last(p)))

\* os.listdir(pathname), as a set: the loop takes the entries in any order.
ListDir(p) == {i \in {Last(q) : q \in dirs \cup DOMAIN fs} : Join(p, i) \in dirs \cup DOMAIN fs}

\* The page the files of the tree hold.
TreePage == [markup |-> TRUE, ups |-> 1, rems |-> <<<<"x">>>>, tail |-> "body"]

DirX == Join(Root, Name("X", FALSE))
RootFiles == {Name("X", TRUE), Name("", TRUE), Name("a.c", TRUE), Name("log", TRUE)}
XFiles == {Name("b.c", TRUE), Name("log", TRUE)}

\* The trees: any of the files under the root, the directory X or not, any of
\* the files under X; each file with a lexer readable, unreadable or
\* undecodable.
TreeFiles(paths) ==
    {f \in [paths -> [mode : Modes, content : {PageText(TreePage)}]] :
        \A q \in paths : ~Recognized(RemoveSuffixHtml(Last(q))) => f[q].mode = "ok"}

Trees ==
    {[dirs |-> {Root} \cup (IF hasX THEN {DirX} ELSE {}), files |-> f] :
        hasX \in BOOLEAN,
        f \in UNION {TreeFiles({Join(Root, n) : n \in rf} \cup {Join(DirX, n) : n \in xf}) :
                     rf \in SUBSET RootFiles, xf \in SUBSET XFiles}}

WInit ==
    /\ \E t \in Trees :
          /\ \A q \in DOMAIN t.files : Front(q) \in t.dirs
          /\ dirs = t.dirs
          /\ fs = t.files
    /\ argv \in {<<>>, <<Root>>, <<Join(Root, Name("log", TRUE))>>, <<Root, Root>>}
    /\ stack = <<>>
    /\ calls = <<>>
    /\ entered = <<>>
    /\ wpc = "start"
    /\ uncaught = "none"
    /\ exitcode = SUCCESS
    /\ pathname = Name("", FALSE)
    /\ mode = "ok"
    /\ page = TreePage
    /\ content = <<>>
    /\ pc = "idle"
    /\ opened = 0
    /\ todo = <<>>
    /\ st1 = Pass1Init
    /\ hlinput = <<>>
    /\ codelines = <<>>
    /\ st2 = Pass2Init
    /\ ret = SUCCESS
    /\ exc = "none"
    /\ run = 1
    /\ first = NoFirst

\* A call of traverse_repository: line 93 and the listing of line 95.
Frame(p) == [path |-> p, todo |-> ListDir(p), retval |-> SUCCESS]

Top == stack[Len(stack)]
SetTop(f) == [stack EXCEPT ![Len(stack)] = f]

\* lines 108-110: the argument count is wrong
MainUsage ==
    /\ wpc = "start"
    /\ Len(argv) + 1 # 2
    /\ wpc' = "exited"
    /\ exitcode' = FAILURE
    /\ UNCHANGED <<argv, dirs, fs, stack, calls, entered, uncaught>>
    /\ UNCHANGED rvars

\* lines 113-115: the argument is not a directory
MainNotDir ==
    /\ wpc = "start"
    /\ Len(argv) + 1 = 2
    /\ ~IsDir(argv[1])
    /\ wpc' = "exited"
    /\ exitcode' = FAILURE
    /\ UNCHANGED <<argv, dirs, fs, stack, calls, entered, uncaught>>
    /\ UNCHANGED rvars

\* line 117: main calls traverse_repository
MainTraverse ==
    /\ wpc = "start"
    /\ Len(argv) + 1 = 2
    /\ IsDir(argv[1])
    /\ wpc' = "walk"
    /\ stack' = <<Frame(argv[1])>>
    /\ entered' = <<argv[1]>>
    /\ UNCHANGED <<argv, dirs, fs, calls, uncaught, exitcode>>
    /\ UNCHANGED rvars

\* lines 96-98: the entry is a directory: recurse
EnterDir(i) ==
    /\ wpc = "walk"
    /\ i \in Top.todo
    /\ LET newpath == Join(Top.path, i)
       IN  /\ IsDir(newpath)
           /\ stack' = Append(SetTop([Top EXCEPT !.todo = @ \ {i}]), Frame(newpath))
           /\ entered' = Append(entered, newpath)
    /\ UNCHANGED <<argv, dirs, fs, calls, wpc, uncaught, exitcode>>
    /\ UNCHANGED rvars

\* lines 101-102: the entry is a file and no directory-index page: highlight
\* it.  An exception highlight_file does not catch ends the process, with
\* exit status 1.
HighlightEntry(i) ==
    /\ wpc = "walk"
    /\ i \in Top.todo
    /\ LET newpath == Join(Top.path, i)
           r == highlight_file(Last(newpath), fs[newpath].mode, fs[newpath].content)
       IN  /\ ~IsDir(newpath)
           /\ ~IsDir(StrippedPath(newpath))
           /\ fs' = [fs EXCEPT ![newpath].content = r.content]
           /\ calls' = Append(calls, [path |-> newpath, ret |-> r.ret, exc |-> r.exc])
           /\ IF r.exc = "none"
              THEN /\ stack' = SetTop([Top EXCEPT !.todo = @ \ {i}, !.retval = r.ret])
                   /\ UNCHANGED <<wpc, uncaught, exitcode>>
              ELSE /\ stack' = <<>>
                   /\ wpc' = "exited"
                   /\ uncaught' = r.exc
                   /\ exitcode' = 1
    /\ UNCHANGED <<argv, dirs, entered>>
    /\ UNCHANGED rvars

\* line 101, condition false: the entry is the .html page of a directory
SkipEntry(i) ==
    /\ wpc = "walk"
    /\ i \in Top.todo
    /\ LET newpath == Join(Top.path, i)
       IN  /\ ~IsDir(newpath)
           /\ IsDir(StrippedPath(newpath))
           /\ stack' = SetTop([Top EXCEPT !.todo = @ \ {i}])
    /\ UNCHANGED <<argv, dirs, fs, calls, entered, wpc, uncaught, exitcode>>
    /\ UNCHANGED rvars

\* line 104 of a recursive call, and line 98 of its caller
ReturnToCaller ==
    /\ wpc = "walk"
    /\ Len(stack) >= 2
    /\ Top.todo = {}
    /\ stack' = [Front(stack) EXCEPT ![Len(stack) - 1].retval = Top.retval]
    /\ UNCHANGED <<argv, dirs, fs, calls, entered, wpc, uncaught, exitcode>>
    /\ UNCHANGED rvars

\* line 104 of the outermost call, line 117 and line 121
ReturnToMain ==
    /\ wpc = "walk"
    /\ Len(stack) = 1
    /\ Top.todo = {}
    /\ stack' = <<>>
    /\ wpc' = "exited"
    /\ exitcode' = Top.retval
    /\ UNCHANGED <<argv, dirs, fs, calls, entered, uncaught>>
    /\ UNCHANGED rvars

Names == RootFiles \cup XFiles \cup {Name("X", FALSE)}

WNext ==
    \/ MainUsage
    \/ MainNotDir
    \/ MainTraverse
    \/ \E i \in Names : EnterDir(i)
    \/ \E i \in Names : HighlightEntry(i)
    \/ \E i \in Names : SkipEntry(i)
    \/ ReturnToCaller
    \/ ReturnToMain

SpecWalk == WInit /\ [][WNext]_vars

\* ========================================================= claims: walker
Traversed == wpc = "exited" /\ entered # <<>>

CallsOn(p) == {k \in 1..Len(calls) : calls[k].path = p}

\* C1 as stated: the exit status is FAILURE whenever some call of
\* highlight_file made during the traversal returned FAILURE.
CE_C1 ==
    (Traversed /\ \E k \in 1..Len(calls) : calls[k].exc = "none" /\ calls[k].ret = FAILURE)
        => exitcode = FAILURE

\* C3 as stated: in a visited directory with a subdirectory X and a file
\* X.html, highlight_file is not called on X.html, it is called exactly once
\* on every other entry that is no directory, and X is traversed.  Stated of
\* the traversals that no exception ended.
CE_C3 ==
    (Traversed /\ uncaught = "none")
        => \A d \in dirs : \A x \in ListDir(d) :
              (IsDir(Join(d, x)) /\ Join(d, Name(x.stem, TRUE)) \in DOMAIN fs)
                  => /\ CallsOn(Join(d, Name(x.stem, TRUE))) = {}
                     /\ Cardinality({k \in 1..Len(entered) : entered[k] = Join(d, x)}) = 1
                     /\ \A e \in ListDir(d) :
                           (Join(d, e) \in DOMAIN fs
                              /\ ~\E y \in ListDir(d) :
                                     IsDir(Join(d, y)) /\ e = Name(y.stem, TRUE))
                               => Cardinality(CallsOn(Join(d, e))) = 1

\* What does hold of C3's directories: X.html is skipped, X is traversed once,
\* and every other file whose name is not just ".html" is highlighted once.
IndexPagesSkipped ==
    (Traversed /\ uncaught = "none")
        => \A d \in dirs : \A x \in ListDir(d) :
              (IsDir(Join(d, x)) /\ Join(d, Name(x.stem, TRUE)) \in DOMAIN fs)
                  => /\ CallsOn(Join(d, Name(x.stem, TRUE))) = {}
                     /\ Cardinality({k \in 1..Len(entered) : entered[k] = Join(d, x)}) = 1
                     /\ \A e \in ListDir(d) :
                           (Join(d, e) \in DOMAIN fs /\ e # Name(x.stem, TRUE))
                               => Cardinality(CallsOn(Join(d, e))) =
                                      (IF e = Name("", TRUE) THEN 0 ELSE 1)

\* ======================================================= claims: rewriter
IsRecognized == Recognized(RemoveSuffixHtml(pathname))

\* The file is recognized and readable, so both loops run over it.
Rewritten == IsRecognized /\ mode = "ok"

\* Well-formed generator markup: one stylesheet link line, one content-open
\* line, one raw-link line, the anchors, one content-close line.
WellFormed(p) == p.markup /\ p.tail \in {"eof", "body"}

AfterClose(p) == IF p.tail = "body" THEN <<BODYCLOSE, NL>> ELSE <<>>

\* The remainders of the anchor lines of a page, in file order.
AllRems(p) ==
    IF p.tail = "anchor" THEN Append(p.rems, <<"x">>) ELSE p.rems

\* C2: a file whose lookup name has no lexer: highlight_file returns SUCCESS,
\* the file is never opened and its content is what it was, whatever the
\* content and whether or not the file is readable.
Thm_C2 ==
    (~IsRecognized /\ pc # "call")
        => /\ pc = "return"
           /\ ret = SUCCESS
           /\ exc = "none"
           /\ opened = 0
           /\ content = PageText(page)

Wit_C2 ==
    /\ ~IsRecognized
    /\ pc = "return"
    /\ run = 1
    /\ mode = "noperm"
    /\ Len(page.rems) >= 1
    /\ content = PageText(page)

\* C4 as stated: a recognized file whose first read fails, by permission or
\* by decoding, makes highlight_file return FAILURE, the file unchanged.
CE_C4 ==
    (IsRecognized /\ mode # "ok" /\ pc \in {"return", "raised"})
        => /\ pc = "return"
           /\ ret = FAILURE
           /\ content = PageText(page)

\* The file a well-formed page becomes, given the highlighted lines cl.
Expected(p, cl) ==
    StyleLine(p.ups) \o SyntaxLine(p.ups) \o <<DIVCONTENT, NL>> \o RawLineHl
    \o Flatten([k \in 1..Len(p.rems) |-> <<AnchorPrefix(k)>> \o cl[k] \o <<NL>>])
    \o <<DIVCLOSE, NL, DIVCLOSE>> \o AfterClose(p)

\* C5 as stated: every recognized well-formed page with N >= 1 anchors becomes
\* the input with the syntax.css link added after the style.css link, the
\* highlight div opened on the raw-link line, one extra </div> after the
\* content-close, and the k-th anchor followed by the k-th highlighted line.
CE_C5 ==
    (Rewritten /\ run = 1 /\ WellFormed(page) /\ Len(page.rems) >= 1
               /\ pc \in {"return", "raised"})
        => /\ pc = "return"
           /\ Len(codelines) >= Len(page.rems)
           /\ content = Expected(page, codelines)

\* What does hold of C5's pages: the rewrite is as C5 says whenever
\* highlight_file returns, and it fails to return only by an IndexError.
RewriteWhenReturned ==
    (Rewritten /\ run = 1 /\ WellFormed(page) /\ pc \in {"return", "raised"})
        => IF pc = "return"
           THEN Len(codelines) >= Len(page.rems) /\ content = Expected(page, codelines)
           ELSE exc = "IndexError" /\ Len(codelines) < Len(page.rems)

\* C6 as stated: when both loops have run, the number of anchor lines the
\* first loop matched equals the final j of the second.
CE_C6 ==
    (Rewritten /\ pc = "return") => CountTok(st1.code, NL) = st2.j

\* C7 as stated: a second application to a well-formed page changes the file
\* again, adding the syntax.css line, the highlight div and the extra </div>
\* once more.
CE_C7 ==
    (Rewritten /\ run = 2 /\ WellFormed(page) /\ pc \in {"return", "raised"})
        => /\ content # first.content
           /\ CountTok(content, SYNTAX) > CountTok(first.content, SYNTAX)
           /\ CountTok(content, DIVCLOSE) > CountTok(first.content, DIVCLOSE)
           /\ CountTok(content, HLDIV) > CountTok(first.content, HLDIV)

\* C7 amended: the second application changes the file again: it adds one more
\* syntax.css line and, when the first application returned, one more </div>;
\* it opens no second highlight div.
Thm_C7 ==
    (Rewritten /\ run = 2 /\ WellFormed(page) /\ pc \in {"return", "raised"})
        => /\ pc = "return"
           /\ content # first.content
           /\ CountTok(content, SYNTAX) = CountTok(first.content, SYNTAX) + 1
           /\ CountTok(content, HLDIV) = CountTok(first.content, HLDIV)
           /\ first.exc = "none"
                  => CountTok(content, DIVCLOSE) = CountTok(first.content, DIVCLOSE) + 1

Wit_C7 ==
    /\ Rewritten /\ run = 2 /\ WellFormed(page) /\ pc = "return"
    /\ Len(page.rems) >= 1
    /\ first.exc = "none"
    /\ CountTok(first.content, HLDIV) = 1
    /\ CountTok(content, SYNTAX) = 2

\* C8's pages: valid markup around zero anchors.
ZeroAnchors == Rewritten /\ run = 1 /\ WellFormed(page) /\ page.rems = <<>>

\* C8 as stated: with zero anchors the highlighted line sequence is empty, the
\* second loop rewrites nothing and the additions of the first loop stay.
CE_C8 ==
    (ZeroAnchors /\ pc \in {"pass2", "return", "raised"})
        => /\ codelines = <<>>
           /\ pc = "return" => content = st1.out

\* C8 amended: with zero anchors the code buffer is empty and no highlighted
\* line is consumed (codelines itself is not empty: it holds the lines of the
\* highlighter's wrapper); the second loop rewrites nothing and the additions
\* of the first loop stay.
Thm_C8 ==
    (ZeroAnchors /\ pc \in {"pass2", "return", "raised"})
        => /\ st1.code = <<>>
           /\ hlinput = <<>>
           /\ Len(codelines) >= 1
           /\ st2.j = 0
           /\ pc # "raised"
           /\ pc = "return"
                  => /\ content = st1.out
                     /\ content = StyleLine(page.ups) \o SyntaxLine(page.ups)
                                   \o <<DIVCONTENT, NL>> \o RawLineHl
                                   \o <<DIVCLOSE, NL, DIVCLOSE>> \o AfterClose(page)

Wit_C8 == ZeroAnchors /\ pc = "return" /\ page.tail = "body" /\ codelines # <<>>

\* C9 as stated: after the content-close line the rewriter is outside content:
\* later </div> lines and later raw-link lines are left alone, so the first
\* loop inserts at most one </div> and opens at most one highlight div.
CE_C9 ==
    (Rewritten /\ run = 1 /\ page.markup /\ pc \in {"pass2", "return", "raised"})
        => /\ CountTok(st1.out, DIVCLOSE) <= CountTok(PageText(page), DIVCLOSE) + 1
           /\ CountTok(st1.out, HLDIV) <= 1

\* The text C10 says reaches the highlighter: each remainder unescaped, a
\* newline after each, and the whole unescaped once more.
TwiceUnescaped(rems) ==
    Unescape(Flatten([k \in 1..Len(rems) |-> Unescape(rems[k]) \o <<NL>>]))

====
